---- MODULE Spec2Model ----
(***************************************************************************)
(* Model of the POST /store handler create_store of src/main.rs: a JSON    *)
(* body is serialized, given a fresh v4 uuid, inserted into the table      *)
(* `stores` through a connection leased from an r2d2 pool, and the table   *)
(* is then loaded whole; the last loaded row is the response.              *)
(* Requests run concurrently on the server's worker threads, so each       *)
(* request is a process whose steps are its accesses to the shared pool    *)
(* and to the shared table.                                                *)
(***************************************************************************)
EXTENDS Integers, Sequences, FiniteSets, TLC

\* ------------------------------------------------------------ bounds
\* Number of requests in flight in one run of the model.
NumReqs == 3
\* Number of connections of the pool (r2d2's default max_size is 10; the
\* model keeps it below NumReqs so that the pool can run dry).
PoolSize == 2
\* Number of distinct values the uuid generator can return.
MaxUuid == 2

Reqs == 1..NumReqs
Uuids == 1..MaxUuid

\* ------------------------------------------------------------ JSON
\* A serde_json::Value: t is the variant, s the scalar's text, kids the
\* members (k is the key of an object member, "" for an array element).
JNull == [t |-> "null", s |-> "", kids |-> <<>>]
JNum(n) == [t |-> "num", s |-> n, kids |-> <<>>]
JStr(x) == [t |-> "str", s |-> x, kids |-> <<>>]
JArr(vs) == [t |-> "arr", s |-> "", kids |-> [i \in 1..Len(vs) |-> [k |-> "", v |-> vs[i]]]]
JObj(ms) == [t |-> "obj", s |-> "", kids |-> ms]

\* The request bodies of the model: {"a":1} and ["1",null].
Payloads ==
    { JObj(<<[k |-> "a", v |-> JNum("1")]>>),
      JArr(<<JStr("1"), JNull>>) }

\* Lexical tokens of the JSON text: punctuation, string, number, keyword.
Punct(c) == <<"p", c>>

RECURSIVE to_string(_)
RECURSIVE MembersToString(_, _, _)
\* Value's Display: compact JSON, members separated by commas, an object
\* member written as "key":value.
MembersToString(kids, i, isObj) ==
    IF i > Len(kids) THEN <<>>
    ELSE (IF i > 1 THEN <<Punct(",")>> ELSE <<>>)
         \o (IF isObj THEN <<<<"s", kids[i].k>>, Punct(":")>> ELSE <<>>)
         \o to_string(kids[i].v)
         \o MembersToString(kids, i + 1, isObj)

to_string(v) ==
    CASE v.t = "null" -> <<<<"kw", "null">>>>
      [] v.t = "num" -> <<<<"n", v.s>>>>
      [] v.t = "str" -> <<<<"s", v.s>>>>
      [] v.t = "arr" -> <<Punct("[")>> \o MembersToString(v.kids, 1, FALSE) \o <<Punct("]")>>
      [] v.t = "obj" -> <<Punct("{")>> \o MembersToString(v.kids, 1, TRUE) \o <<Punct("}")>>

\* The decoder (serde_json::from_str): a recursive-descent parser over the
\* tokens. A parse result is [ok, val, rest].
ParseFail == [ok |-> FALSE, val |-> JNull, rest |-> <<>>]
IsPunct(toks, c) == toks # <<>> /\ toks[1] = Punct(c)

RECURSIVE ParseValue(_)
RECURSIVE ParseMembers(_, _, _, _)
\* Members after the opening bracket, up to and including `close`.
ParseMembers(toks, close, isObj, acc) ==
    IF IsPunct(toks, close) /\ acc = <<>>
    THEN [ok |-> TRUE, val |-> acc, rest |-> Tail(toks)]
    ELSE LET keyOk == ~isObj \/ (Len(toks) >= 2 /\ toks[1][1] = "s" /\ toks[2] = Punct(":"))
             key == IF isObj /\ keyOk THEN toks[1][2] ELSE ""
             body == IF isObj /\ keyOk THEN SubSeq(toks, 3, Len(toks)) ELSE toks
             pv == ParseValue(body)
         IN  IF ~keyOk \/ ~pv.ok THEN ParseFail
             ELSE LET acc2 == Append(acc, [k |-> key, v |-> pv.val])
                  IN  IF IsPunct(pv.rest, close)
                      THEN [ok |-> TRUE, val |-> acc2, rest |-> Tail(pv.rest)]
                      ELSE IF IsPunct(pv.rest, ",")
                           THEN ParseMembers(Tail(pv.rest), close, isObj, acc2)
                           ELSE ParseFail

ParseValue(toks) ==
    IF toks = <<>> THEN ParseFail
    ELSE LET tk == toks[1]
         IN  CASE tk = <<"kw", "null">> -> [ok |-> TRUE, val |-> JNull, rest |-> Tail(toks)]
               [] tk[1] = "n" -> [ok |-> TRUE, val |-> JNum(tk[2]), rest |-> Tail(toks)]
               [] tk[1] = "s" -> [ok |-> TRUE, val |-> JStr(tk[2]), rest |-> Tail(toks)]
               [] tk = Punct("[") ->
                    LET pm == ParseMembers(Tail(toks), "]", FALSE, <<>>)
                    IN  IF pm.ok THEN [ok |-> TRUE, val |-> [t |-> "arr", s |-> "", kids |-> pm.val], rest |-> pm.rest]
                        ELSE ParseFail
               [] tk = Punct("{") ->
                    LET pm == ParseMembers(Tail(toks), "}", TRUE, <<>>)
                    IN  IF pm.ok THEN [ok |-> TRUE, val |-> JObj(pm.val), rest |-> pm.rest]
                        ELSE ParseFail
               [] OTHER -> ParseFail

\* from_str: the whole text must be one value.
from_str(text) ==
    LET pv == ParseValue(text)
    IN  IF pv.ok /\ pv.rest = <<>> THEN <<pv.val>> ELSE <<>>

\* ------------------------------------------------------------ state
VARIABLES
    table,        \* the rows of `stores`, in insertion order
    conns,        \* the pool's idle connections (r2d2 keeps them in a Vec)
    pc,           \* where each request is in create_store
    request_data, \* the request's JSON body, <<>> before it arrives
    new_entry,    \* the NewStore the request builds
    lease,        \* what pool.get() returned to the request
    result,       \* the Vec<Store> the request loaded
    response,     \* the HttpResponse, or the panic that ended the handler
    inserted_id,  \* history: the key of the row the request's insert added, 0 if none
    attempts,     \* history: how often the request called get, insert and load
    in_order      \* history: the request's load returned the rows in insertion order

vars == <<table, conns, pc, request_data, new_entry, lease, result, response, inserted_id,
          attempts, in_order>>

NoEntry == [data |-> <<>>, api_id |-> 0]
NoResponse == [status |-> "none", body |-> <<>>]
\* Store's conversion into the response's JSON: the Document, with the
\* store-assigned key, the public identifier and the stored text.
StoreIntoValue(store) ==
    [internal_id |-> store.id, external_id |-> store.api_id, payload |-> store.data]
\* Mutant of OkResponse: the Document is built from the values the request
\* sent, which carry no store-assigned key.
OkResponseFromRequest(store) ==
    [status |-> "200",
     body |-> <<[internal_id |-> 0, external_id |-> store.api_id, payload |-> store.data]>>]
\* HttpResponse::Ok().json(store.into())
OkResponse(store) == [status |-> "200", body |-> <<StoreIntoValue(store)>>]
\* HttpResponse::InternalServerError().into()
ErrResponse == [status |-> "500", body |-> <<>>]
\* unwrap() on Err or None: the handler panics and produces no response.
Panicked == [status |-> "panic", body |-> <<>>]

NoAttempts == [get |-> 0, insert |-> 0, load |-> 0]
\* One more call of `op` by request r.
Attempt(r, op) == [attempts EXCEPT ![r][op] = @ + 1]

Last(s) == s[Len(s)]
Front(s) == SubSeq(s, 1, Len(s) - 1)

\* Mutant of pop: the first row is taken instead of the last.
PopFront(rows) == [row |-> rows[1], rest |-> Tail(rows)]
\* Vec::pop on the loaded rows: the last row, and the rows left.
pop(rows) == [row |-> Last(rows), rest |-> Front(rows)]

\* Mutant of PopConn: the connection handed out stays in the idle list.
PopConnKeep(cs) == cs
\* Mutant of PutBack: the dropped lease's connection is lost.
PutBackLeak(cs, c) == cs

\* Vec::pop on the pool's idle connections, and the push that returns one.
PopConn(cs) == Front(cs)
PutBack(cs, c) == Append(cs, c)

\* The column api_id is unique: an insert of a value already there fails.
UniqueViolation(rows, id) == \E i \in 1..Len(rows) : rows[i].api_id = id

\* Mutant of InsertRow: the insert overwrites the most recent row.
InsertRowReplace(rows, entry) ==
    IF rows = <<>>
    THEN <<[id |-> 1, data |-> entry.data, api_id |-> entry.api_id]>>
    ELSE [rows EXCEPT ![Len(rows)] = [id |-> Len(rows), data |-> entry.data, api_id |-> entry.api_id]]

\* The row an insert of `entry` adds: the key is assigned by the store.
InsertRow(rows, entry) ==
    Append(rows, [id |-> Len(rows) + 1, data |-> entry.data, api_id |-> entry.api_id])

\* stores.load(conn) is a SELECT with no ORDER BY: the rows come back in
\* an order the store chooses.
LoadOrders(rows) ==
    LET n == Len(rows)
        perms == {f \in [1..n -> 1..n] : \A i, j \in 1..n : f[i] = f[j] => i = j}
    IN  {[i \in 1..n |-> rows[f[i]]] : f \in perms}

Init ==
    /\ table = <<>>
    /\ conns = [i \in 1..PoolSize |-> i]
    /\ pc = [r \in Reqs |-> "idle"]
    /\ request_data = [r \in Reqs |-> <<>>]
    /\ new_entry = [r \in Reqs |-> NoEntry]
    /\ lease = [r \in Reqs |-> <<>>]
    /\ result = [r \in Reqs |-> <<>>]
    /\ response = [r \in Reqs |-> NoResponse]
    /\ inserted_id = [r \in Reqs |-> 0]
    /\ attempts = [r \in Reqs |-> NoAttempts]
    /\ in_order = [r \in Reqs |-> FALSE]

\* Lines 60-65: serialize the body, draw a uuid, build the NewStore.
HandlerEnter(r) ==
    /\ pc[r] = "idle"
    /\ \E p \in Payloads, u \in Uuids :
          /\ request_data' = [request_data EXCEPT ![r] = <<p>>]
          /\ new_entry' = [new_entry EXCEPT ![r] = [data |-> to_string(p), api_id |-> u]]
    /\ pc' = [pc EXCEPT ![r] = "get"]
    /\ UNCHANGED <<table, conns, lease, result, response, inserted_id, attempts, in_order>>

\* Line 66, pool.get() with an idle connection: the lease takes it.
PoolGet(r) ==
    /\ pc[r] = "get"
    /\ conns # <<>>
    /\ lease' = [lease EXCEPT ![r] = <<"Ok", Last(conns)>>]
    /\ conns' = PopConn(conns)
    /\ pc' = [pc EXCEPT ![r] = "insert"]
    /\ attempts' = Attempt(r, "get")
    /\ UNCHANGED <<table, request_data, new_entry, result, response, inserted_id, in_order>>

\* Mutant of PoolTimeout: get() has no wait bound.
PoolTimeoutNever(r) ==
    /\ FALSE
    /\ UNCHANGED vars

\* Mutant of PoolTimeout: with no idle connection get() opens a new one.
PoolTimeoutCreates(r) ==
    /\ pc[r] = "get"
    /\ conns = <<>>
    /\ lease' = [lease EXCEPT ![r] = <<"Ok", PoolSize + r>>]
    /\ pc' = [pc EXCEPT ![r] = "insert"]
    /\ attempts' = Attempt(r, "get")
    /\ UNCHANGED <<table, conns, request_data, new_entry, result, response, inserted_id, in_order>>

\* Line 66, pool.get() with no idle connection until the connection
\* timeout: it returns Err, and unwrap() panics.
PoolTimeout(r) ==
    /\ pc[r] = "get"
    /\ conns = <<>>
    /\ lease' = [lease EXCEPT ![r] = <<"Err">>]
    /\ response' = [response EXCEPT ![r] = Panicked]
    /\ pc' = [pc EXCEPT ![r] = "done"]
    /\ attempts' = Attempt(r, "get")
    /\ UNCHANGED <<table, conns, request_data, new_entry, result, inserted_id, in_order>>

\* Mutant of InsertOk: the lease is dropped as soon as the insert returns.
InsertOkReleases(r) ==
    /\ pc[r] = "insert"
    /\ ~UniqueViolation(table, new_entry[r].api_id)
    /\ table' = InsertRow(table, new_entry[r])
    /\ inserted_id' = [inserted_id EXCEPT ![r] = Last(table').id]
    /\ conns' = PutBack(conns, lease[r][2])
    /\ lease' = [lease EXCEPT ![r] = <<>>]
    /\ pc' = [pc EXCEPT ![r] = "load"]
    /\ attempts' = Attempt(r, "insert")
    /\ UNCHANGED <<request_data, new_entry, result, response, in_order>>

\* Line 67, the insert commits.
InsertOk(r) ==
    /\ pc[r] = "insert"
    /\ ~UniqueViolation(table, new_entry[r].api_id)
    /\ table' = InsertRow(table, new_entry[r])
    /\ inserted_id' = [inserted_id EXCEPT ![r] = Last(table').id]
    /\ pc' = [pc EXCEPT ![r] = "load"]
    /\ attempts' = Attempt(r, "insert")
    /\ UNCHANGED <<conns, request_data, new_entry, lease, result, response, in_order>>

\* Mutant of InsertErr: the result of the insert is ignored and the
\* handler goes on to the load.
InsertErrIgnored(r) ==
    /\ pc[r] = "insert"
    /\ pc' = [pc EXCEPT ![r] = "load"]
    /\ attempts' = Attempt(r, "insert")
    /\ UNCHANGED <<table, conns, request_data, new_entry, lease, result, response, inserted_id, in_order>>

\* Mutant of InsertErr: a failed insert is tried again.
InsertErrRetry(r) ==
    /\ pc[r] = "insert"
    /\ attempts' = Attempt(r, "insert")
    /\ UNCHANGED <<table, conns, pc, request_data, new_entry, lease, result, response, inserted_id, in_order>>

\* Line 67, the insert fails (constraint, connection): line 72 answers.
InsertErr(r) ==
    /\ pc[r] = "insert"
    /\ response' = [response EXCEPT ![r] = ErrResponse]
    /\ pc' = [pc EXCEPT ![r] = "ret"]
    /\ attempts' = Attempt(r, "insert")
    /\ UNCHANGED <<table, conns, request_data, new_entry, lease, result, inserted_id, in_order>>

\* Lines 68-69, the load succeeds: the last row of the Vec is the answer,
\* and pop().unwrap() panics on an empty Vec.
LoadOk(r) ==
    /\ pc[r] = "load"
    /\ \E rows \in LoadOrders(table) :
          /\ in_order' = [in_order EXCEPT ![r] = (rows = table)]
          /\ IF rows = <<>>
             THEN /\ result' = [result EXCEPT ![r] = <<>>]
                  /\ response' = [response EXCEPT ![r] = Panicked]
             ELSE /\ result' = [result EXCEPT ![r] = pop(rows).rest]
                  /\ response' = [response EXCEPT ![r] = OkResponse(pop(rows).row)]
    /\ pc' = [pc EXCEPT ![r] = "ret"]
    /\ attempts' = Attempt(r, "load")
    /\ UNCHANGED <<table, conns, request_data, new_entry, lease, inserted_id>>

\* Mutant of LoadErr: a failed load rolls the request's insert back.
LoadErrRollback(r) ==
    /\ pc[r] = "load"
    /\ table' = SelectSeq(table, LAMBDA row : row.id # inserted_id[r])
    /\ response' = [response EXCEPT ![r] = ErrResponse]
    /\ pc' = [pc EXCEPT ![r] = "ret"]
    /\ attempts' = Attempt(r, "load")
    /\ UNCHANGED <<conns, request_data, new_entry, lease, result, inserted_id, in_order>>

\* Line 68, the load fails: line 72 answers.
LoadErr(r) ==
    /\ pc[r] = "load"
    /\ response' = [response EXCEPT ![r] = ErrResponse]
    /\ pc' = [pc EXCEPT ![r] = "ret"]
    /\ attempts' = Attempt(r, "load")
    /\ UNCHANGED <<table, conns, request_data, new_entry, lease, result, inserted_id, in_order>>

\* Mutant of Return: the lease cannot be dropped while a request waits in
\* get().
ReturnBlockedByWaiter(r) ==
    /\ pc[r] = "ret"
    /\ \A w \in Reqs : pc[w] # "get"
    /\ conns' = PutBack(conns, lease[r][2])
    /\ lease' = [lease EXCEPT ![r] = <<>>]
    /\ result' = [result EXCEPT ![r] = <<>>]
    /\ in_order' = [in_order EXCEPT ![r] = FALSE]
    /\ pc' = [pc EXCEPT ![r] = "done"]
    /\ UNCHANGED <<table, request_data, new_entry, response, inserted_id, attempts>>

\* Mutant of Return: the function ends without dropping the lease.
ReturnNoDrop(r) ==
    /\ pc[r] = "ret"
    /\ result' = [result EXCEPT ![r] = <<>>]
    /\ in_order' = [in_order EXCEPT ![r] = FALSE]
    /\ pc' = [pc EXCEPT ![r] = "done"]
    /\ UNCHANGED <<table, conns, request_data, new_entry, lease, response, inserted_id, attempts>>

\* Line 73, the function's scope ends (by return or by unwinding): the
\* locals are dropped, and dropping the lease puts the connection back.
Return(r) ==
    /\ pc[r] = "ret"
    /\ conns' = PutBack(conns, lease[r][2])
    /\ lease' = [lease EXCEPT ![r] = <<>>]
    /\ result' = [result EXCEPT ![r] = <<>>]
    /\ in_order' = [in_order EXCEPT ![r] = FALSE]
    /\ pc' = [pc EXCEPT ![r] = "done"]
    /\ UNCHANGED <<table, request_data, new_entry, response, inserted_id, attempts>>

Next ==
    \E r \in Reqs :
        \/ HandlerEnter(r)
        \/ PoolGet(r)
        \/ PoolTimeout(r)
        \/ InsertOk(r)
        \/ InsertErr(r)
        \/ LoadOk(r)
        \/ LoadErr(r)
        \/ Return(r)

Spec == Init /\ [][Next]_vars

\* One specification per fairness the code's scheduling gives. r2d2's get
\* returns within its connection timeout, with a connection or with Err,
\* whatever the other requests do; a statement sent to the store has no
\* bound on how long it takes.
FairPoolSpec == Spec /\ \A r \in Reqs : WF_vars(PoolGet(r) \/ PoolTimeout(r))

\* Fair scheduling: the worker running a request goes on, the pool answers
\* within its wait bound and the store answers every statement.
FairSpec ==
    /\ Spec
    /\ \A r \in Reqs :
          /\ WF_vars(PoolGet(r) \/ PoolTimeout(r))
          /\ WF_vars(InsertOk(r) \/ InsertErr(r))
          /\ WF_vars(LoadOk(r) \/ LoadErr(r))
          /\ WF_vars(Return(r))

\* ------------------------------------------------------------ claims
Succeeded(r) == response[r].status = "200"
\* The Document of a success response.
Doc(r) == response[r].body[1]
\* The Documents of the rows in the table.
Documents == {StoreIntoValue(table[i]) : i \in 1..Len(table)}

\* C1: a request that returns success returns the row it wrote itself: the
\* external_id of its response is the identifier it generated, and the
\* Document is a row of the table written by no other request.
C1_ReturnsOwnRow ==
    \A r \in Reqs :
        Succeeded(r) =>
            /\ Doc(r).external_id = new_entry[r].api_id
            /\ Doc(r) \in Documents
            /\ Doc(r).internal_id = inserted_id[r]

\* C2: the payload of a success response, decoded from its stored text, is
\* structurally equal to the payload the request sent.
C2_RoundTrip ==
    \A r \in Reqs :
        Succeeded(r) => from_str(Doc(r).payload) = request_data[r]

\* C3: no two rows share an external_id, and no two successful requests
\* return Documents with the same external_id.
C3_UniqueExternalId ==
    /\ \A i, j \in 1..Len(table) : table[i].api_id = table[j].api_id => i = j
    /\ \A r1, r2 \in Reqs :
          (r1 # r2 /\ Succeeded(r1) /\ Succeeded(r2)) => Doc(r1).external_id # Doc(r2).external_id

\* C4: two successful requests with identical payloads add two distinct
\* rows and return Documents with distinct external_ids, and the table has
\* grown by exactly one row per committed insert.
C4_NotIdempotent ==
    /\ \A r1, r2 \in Reqs :
          (r1 # r2 /\ Succeeded(r1) /\ Succeeded(r2) /\ request_data[r1] = request_data[r2]) =>
              /\ inserted_id[r1] # inserted_id[r2]
              /\ Doc(r1).external_id # Doc(r2).external_id
    /\ Len(table) = Cardinality({r \in Reqs : inserted_id[r] # 0})

Holds(r) == Len(lease[r]) = 2
TimedOut(r) == lease[r] = <<"Err">>
Holders == {r \in Reqs : Holds(r)}
\* The request's insert failed / committed and its load failed.
WriteFailed(r) == pc[r] \in {"ret", "done"} /\ inserted_id[r] = 0 /\ ~TimedOut(r)
ReadBackFailed(r) == pc[r] \in {"ret", "done"} /\ inserted_id[r] # 0 /\ ~Succeeded(r)

\* C5: a finished request holds no lease on any exit path, and the idle
\* connections are all those no running request holds: once the request is
\* over the pool's available count is what it was before the request.
C5_LeaseReturned ==
    /\ \A r \in Reqs : pc[r] = "done" => ~Holds(r)
    /\ Len(conns) = PoolSize - Cardinality(Holders)

\* C5 witness: a success, a write failure and a read-back failure have all
\* finished and every connection is idle again.
C5_Witness ==
    /\ \A r \in Reqs : pc[r] = "done"
    /\ \E r \in Reqs : Succeeded(r)
    /\ \E r \in Reqs : WriteFailed(r)
    /\ \E r \in Reqs : ReadBackFailed(r)
    /\ Len(conns) = PoolSize

\* C6: every connection is either idle in the pool, once, or held by
\* exactly one request.
C6_ExclusiveLease ==
    \A c \in 1..PoolSize :
        Cardinality({i \in 1..Len(conns) : conns[i] = c})
            + Cardinality({r \in Reqs : Holds(r) /\ lease[r][2] = c}) = 1

\* C6 witness: every connection is leased, to distinct requests, while
\* another request is calling get().
C6_Witness ==
    /\ Cardinality(Holders) = PoolSize
    /\ \E r \in Reqs : pc[r] = "get"

\* C7: a request in get() while no connection is idle obtains none, and
\* unless one is released it ends its wait with the timeout error.
C7_PoolExhausted ==
    /\ \A r \in Reqs : (pc[r] = "get" /\ conns = <<>>) ~> (TimedOut(r) \/ conns # <<>>)
    /\ [][\A r \in Reqs : (pc[r] = "get" /\ conns = <<>> /\ pc'[r] # "get") => TimedOut(r)']_vars

\* C7 witness: all connections are leased and a further request's get()
\* has returned the timeout error.
C7_Witness ==
    /\ Cardinality(Holders) = PoolSize
    /\ \E r \in Reqs : TimedOut(r)

\* C8: every failure path ends the request with an error response: the
\* handler is never aborted, and a failed get() gives an error response.
C8_TypedErrors ==
    \A r \in Reqs :
        /\ response[r].status # "panic"
        /\ TimedOut(r) => response[r].status = "500"
        /\ (WriteFailed(r) \/ ReadBackFailed(r)) => response[r].status = "500"

\* C9: the response of a request whose insert failed differs from the
\* response of a request whose insert committed and whose read-back failed.
C9_DistinctFailures ==
    \A r1, r2 \in Reqs :
        (WriteFailed(r1) /\ ReadBackFailed(r2)) => response[r1] # response[r2]

\* C10: a failed insert adds no row and gives a failure response; a
\* success response carries a row and is given only by a request whose
\* insert committed and whose load succeeded.
C10_NoPartialDocument ==
    /\ Len(table) = Cardinality({r \in Reqs : inserted_id[r] # 0})
    /\ \A r \in Reqs : WriteFailed(r) => response[r] = ErrResponse
    /\ \A r \in Reqs :
          Succeeded(r) =>
              /\ inserted_id[r] # 0
              /\ Len(response[r].body) = 1
              /\ Doc(r) \in Documents

\* C10 witness: one request's insert failed and it has answered, another
\* request has answered with a Document.
C10_Witness ==
    /\ \E r \in Reqs : pc[r] = "done" /\ WriteFailed(r) /\ response[r] = ErrResponse
    /\ \E r \in Reqs : pc[r] = "done" /\ Succeeded(r)

\* C11: never more leases than the pool has connections, each on one of
\* the pool's connections; a request at the store holds one of them.
C11_BoundedLeases ==
    /\ Cardinality(Holders) <= PoolSize
    /\ \A r \in Holders : lease[r][2] \in 1..PoolSize
    /\ \A r \in Reqs : pc[r] \in {"insert", "load"} => Holds(r)

\* C11 witness: the pool is fully leased, its holders are at the store and
\* a request beyond the bound is waiting in get().
C11_Witness ==
    /\ Cardinality(Holders) = PoolSize
    /\ \A r \in Holders : pc[r] \in {"insert", "load"}
    /\ \E r \in Reqs : pc[r] = "get" /\ ~Holds(r)

\* C12: whatever requests wait in get(), a lease holder can take its next
\* step (insert, load, release), and a waiter can take a connection as
\* soon as one is idle.
C12_WaiterBlocksNobody ==
    \A r \in Reqs :
        /\ pc[r] = "insert" => ENABLED (InsertOk(r) \/ InsertErr(r))
        /\ pc[r] = "load" => ENABLED (LoadOk(r) \/ LoadErr(r))
        /\ pc[r] = "ret" => ENABLED Return(r)
        /\ (pc[r] = "get" /\ conns # <<>>) => ENABLED PoolGet(r)

\* C12 witness: a request waits in get() on an empty pool while one holder
\* has reached its release and the other its load.
C12_Witness ==
    /\ conns = <<>>
    /\ \E w, r1, r2 \in Reqs : pc[w] = "get" /\ pc[r1] = "ret" /\ pc[r2] = "load"

IsPrefix(s, t) == Len(s) <= Len(t) /\ \A i \in 1..Len(s) : s[i] = t[i]

\* C13: every step keeps the rows already in the table as they are and
\* adds at most one row after them.
C13_RowsNeverChange ==
    [][IsPrefix(table, table') /\ Len(table') <= Len(table) + 1]_vars

\* C13 witness: a second row has been added to a table that had one.
C13_Witness ==
    /\ Len(table) = 2
    /\ \E r \in Reqs : inserted_id[r] = 1 /\ pc[r] = "done"

\* C14: a request calls get, insert and load at most once each, and a
\* failed insert or load is the request's last call.
C14_NoRetries ==
    \A r \in Reqs :
        /\ attempts[r].get <= 1 /\ attempts[r].insert <= 1 /\ attempts[r].load <= 1
        /\ (attempts[r].insert = 1 /\ inserted_id[r] = 0) =>
              (attempts[r].load = 0 /\ response[r] = ErrResponse)
        /\ (attempts[r].load = 1 /\ ~Succeeded(r)) => pc[r] \in {"ret", "done"}

\* C14 witness: a request whose insert failed and a request whose load
\* failed have both finished after one call of each kind.
C14_Witness ==
    /\ \E r \in Reqs : pc[r] = "done" /\ attempts[r] = [get |-> 1, insert |-> 1, load |-> 0]
    /\ \E r \in Reqs : pc[r] = "done" /\ attempts[r] = [get |-> 1, insert |-> 1, load |-> 1]
                        /\ ReadBackFailed(r)

\* No insert committed between the request's insert and its load: the
\* loaded rows end with the key the request's insert was given.
LoadedAlone(r) == Len(result[r]) + 1 = inserted_id[r]

\* C15: a load in insertion order with no other insert committed since the
\* request's own answers with the row the request inserted.
C15_RecencyWhenAlone ==
    \A r \in Reqs :
        (pc[r] = "ret" /\ Succeeded(r) /\ in_order[r] /\ LoadedAlone(r)) =>
            /\ Doc(r).internal_id = inserted_id[r]
            /\ Doc(r).external_id = new_entry[r].api_id
            /\ Doc(r).payload = new_entry[r].data

\* C15 witness: such a load on a table that already held another row.
C15_Witness ==
    \E r \in Reqs :
        /\ pc[r] = "ret" /\ Succeeded(r) /\ in_order[r] /\ LoadedAlone(r)
        /\ inserted_id[r] = 2

\* C16: the load is called only after the insert committed, the request
\* holds its lease from get() until it has its response, and no step
\* before the release changes the lease.
C16_SequentialOnOneLease ==
    /\ [](\A r \in Reqs :
            /\ attempts[r].load = 1 => inserted_id[r] # 0
            /\ pc[r] \in {"insert", "load", "ret"} => Holds(r))
    /\ [][\A r \in Reqs : (Holds(r) /\ pc'[r] # "done") => lease'[r] = lease[r]]_vars

\* C16 witness: a request has its success response and still holds the
\* lease it inserted and loaded with.
C16_Witness ==
    \E r \in Reqs : pc[r] = "ret" /\ Succeeded(r) /\ Holds(r) /\ attempts[r].load = 1

\* C17: the Document of a success response is a row of the table, one that
\* some request's insert committed.
C17_OnlyCommittedRows ==
    \A r \in Reqs :
        Succeeded(r) =>
            \E i \in 1..Len(table) :
                /\ Doc(r) = StoreIntoValue(table[i])
                /\ \E q \in Reqs : inserted_id[q] = table[i].id

\* C17 witness: a finished request answered with the row it inserted.
C17_Witness ==
    \E r \in Reqs : pc[r] = "done" /\ Succeeded(r) /\ Doc(r).internal_id = inserted_id[r]

\* C18: after a committed insert and a failed load the request answers
\* with a failure and its row is still in the table.
C18_NoRollback ==
    \A r \in Reqs :
        ReadBackFailed(r) =>
            /\ response[r].status # "200"
            /\ \E i \in 1..Len(table) :
                  /\ table[i].id = inserted_id[r]
                  /\ table[i].api_id = new_entry[r].api_id
                  /\ table[i].data = new_entry[r].data

\* C18 witness: a finished request answered 500 and its row is stored.
C18_Witness ==
    \E r \in Reqs :
        /\ pc[r] = "done" /\ ReadBackFailed(r) /\ response[r] = ErrResponse
        /\ Len(table) >= inserted_id[r]

Ended(r) == pc[r] = "done" /\ response[r].status \in {"200", "500", "panic"} /\ ~Holds(r)

\* C19: every request that has entered create_store ends, with an outcome
\* and without a lease.
C19_Terminates ==
    \A r \in Reqs : (pc[r] # "idle") ~> Ended(r)

\* C19 witness: all requests have ended, one of them by the timeout of
\* get().
C19_Witness ==
    /\ \A r \in Reqs : Ended(r)
    /\ \E r \in Reqs : TimedOut(r)

====
